---- MODULE Spec2Model ----
(***************************************************************************)
(* HealthSync backend (backend/server.py): habit logging, the health-score *)
(* and token-reward rules, and the token ledger, as a state machine over   *)
(* the document store.  Every await on a store operation is one atomic     *)
(* step of the request that issues it; requests of different clients       *)
(* interleave between those steps.                                         *)
(*                                                                         *)
(* Numbers.  sleep_hours is a float: it is carried in half hours           *)
(* (SleepUnit units per hour).  Points of the health score are carried in  *)
(* units of 1/Pt, and a health score in units of 1/ScoreScale, so that the *)
(* divisions of calculate_health_score (/2, /667, *1.25, /factors) are     *)
(* exact; binary floating-point rounding is not modelled.                  *)
(***************************************************************************)
EXTENDS Integers, Sequences, FiniteSets

\* ---------------------------------------------------------------- bounds
MaxRequests == 3          \* requests accepted over a behaviour
MaxDay == 1               \* calendar days after the first one

\* ---------------------------------------------------------------- scales
SleepUnit == 1 + 1                    \* sleep_hours in half hours
Pt == 4 * 667                         \* units per health-score point
FactorLcm == 3 * 4 * 5 * 7            \* lcm of the possible factor counts 1..7
ScoreScale == Pt * FactorLcm          \* units per health-score unit

Min(a, b) == IF a <= b THEN a ELSE b
Max(a, b) == IF a >= b THEN a ELSE b

\* ---------------------------------------------------------------- values
\* An Optional[...] field: None, or a one-element tuple holding the value.
None == << >>
Some(v) == << v >>
Val(x) == x[1]
\* Python truthiness of an Optional number, as in `if d.get('k'):`
Truthy(x) == x # None /\ Val(x) # 0

Procs == {"p1", "p2"}                 \* request handlers that may be in flight
UserIds == {"u1"}               \* ids create_user hands out
GhostId == "ghost"                    \* an id no user ever gets
RequestIds == UserIds \cup {GhostId}  \* ids a client may name

Metrics == {"sleep_hours", "exercise_minutes", "steps_count", "water_glasses",
            "fruits_vegetables", "mood_rating", "meditation_minutes", "stress_level"}
\* The metrics calculate_health_score reads (meditation_minutes is not one).
ScoredMetrics == Metrics \ {"meditation_minutes"}

NoMetrics == [m \in Metrics |-> None]
\* The habit of test_log_habits: sleep 8.0, exercise 45, water 10, mood 4.
TestHabit == [NoMetrics EXCEPT !["sleep_hours"] = Some(8 * SleepUnit),
                               !["exercise_minutes"] = Some(45),
                               !["water_glasses"] = Some(10),
                               !["mood_rating"] = Some(4)]

\* Request bodies of the system specification.
HabitInputs == {NoMetrics, TestHabit}

\* Request bodies of the scoring specification: every combination of these.
MetricValues(m) ==
    CASE m = "sleep_hours"        -> {None, Some(0), Some(13), Some(14), Some(18)}
      [] m = "exercise_minutes"   -> {None, Some(-10), Some(29), Some(30), Some(50)}
      [] m = "steps_count"        -> {None, Some(7999), Some(8000), Some(10005)}
      [] m = "water_glasses"      -> {None, Some(7), Some(8)}
      [] m = "fruits_vegetables"  -> {None, Some(2), Some(3), Some(5)}
      [] m = "mood_rating"        -> {None, Some(3), Some(4), Some(5), Some(40)}
      [] m = "meditation_minutes" -> {None, Some(9), Some(10)}
      [] m = "stress_level"       -> {None, Some(0), Some(1), Some(2), Some(3)}
HabitSpace ==
    { [sleep_hours |-> a, exercise_minutes |-> b, steps_count |-> c,
       water_glasses |-> d, fruits_vegetables |-> e, mood_rating |-> f,
       meditation_minutes |-> g, stress_level |-> k] :
        a \in MetricValues("sleep_hours"), b \in MetricValues("exercise_minutes"),
        c \in MetricValues("steps_count"), d \in MetricValues("water_glasses"),
        e \in MetricValues("fruits_vegetables"), f \in MetricValues("mood_rating"),
        g \in MetricValues("meditation_minutes"), k \in MetricValues("stress_level") }

\* ------------------------------------------------- log_habit: token reward
\* Mutant: the mood rule uses > instead of >=.
TokenRewardStrictMood(h) ==
      (IF Truthy(h["sleep_hours"]) /\ Val(h["sleep_hours"]) >= 7 * SleepUnit THEN 20 ELSE 0)
    + (IF Truthy(h["exercise_minutes"]) /\ Val(h["exercise_minutes"]) >= 30 THEN 30 ELSE 0)
    + (IF Truthy(h["steps_count"]) /\ Val(h["steps_count"]) >= 8000 THEN 25 ELSE 0)
    + (IF Truthy(h["water_glasses"]) /\ Val(h["water_glasses"]) >= 8 THEN 15 ELSE 0)
    + (IF Truthy(h["fruits_vegetables"]) /\ Val(h["fruits_vegetables"]) >= 3 THEN 20 ELSE 0)
    + (IF Truthy(h["mood_rating"]) /\ Val(h["mood_rating"]) > 4 THEN 10 ELSE 0)
    + (IF Truthy(h["meditation_minutes"]) /\ Val(h["meditation_minutes"]) >= 10 THEN 15 ELSE 0)
    + (IF Truthy(h["stress_level"]) /\ Val(h["stress_level"]) <= 2 THEN 10 ELSE 0)

\* server.py 461-484: the eight `if d.get(k) and d[k] >= t: tokens_earned += b`.
TokenReward(h) ==
      (IF Truthy(h["sleep_hours"]) /\ Val(h["sleep_hours"]) >= 7 * SleepUnit THEN 20 ELSE 0)
    + (IF Truthy(h["exercise_minutes"]) /\ Val(h["exercise_minutes"]) >= 30 THEN 30 ELSE 0)
    + (IF Truthy(h["steps_count"]) /\ Val(h["steps_count"]) >= 8000 THEN 25 ELSE 0)
    + (IF Truthy(h["water_glasses"]) /\ Val(h["water_glasses"]) >= 8 THEN 15 ELSE 0)
    + (IF Truthy(h["fruits_vegetables"]) /\ Val(h["fruits_vegetables"]) >= 3 THEN 20 ELSE 0)
    + (IF Truthy(h["mood_rating"]) /\ Val(h["mood_rating"]) >= 4 THEN 10 ELSE 0)
    + (IF Truthy(h["meditation_minutes"]) /\ Val(h["meditation_minutes"]) >= 10 THEN 15 ELSE 0)
    + (IF Truthy(h["stress_level"]) /\ Val(h["stress_level"]) <= 2 THEN 10 ELSE 0)

\* --------------------------------------------------- calculate_health_score
\* The points one metric adds to `score` when its `if` block runs, in 1/Pt.
MetricScore(m, v) ==
    CASE m = "sleep_hours"       -> Min(20 * Pt, Max(0, ((v - 4 * SleepUnit) * 4 * Pt) \div SleepUnit))
      [] m = "exercise_minutes"  -> Min(25 * Pt, (v * Pt) \div 2)
      [] m = "steps_count"       -> Min(15 * Pt, v * (Pt \div 667))
      [] m = "water_glasses"     -> Min(10 * Pt, (v * 5 * Pt) \div 4)
      [] m = "fruits_vegetables" -> Min(15 * Pt, v * 3 * Pt)
      [] m = "mood_rating"       -> v * 3 * Pt
      [] m = "stress_level"      -> Max(0, (6 - v) * 3 * Pt)

\* The metrics whose `if habit_data.get(m):` block runs.
Counted(h) == {m \in ScoredMetrics : Truthy(h[m])}

RECURSIVE SumScores(_, _)
SumScores(h, S) ==
    IF S = {} THEN 0
    ELSE LET m == CHOOSE x \in S : TRUE
         IN  MetricScore(m, Val(h[m])) + SumScores(h, S \ {m})

\* Mutant: the sum is divided by the number of scored metrics, present or not.
calculate_health_score_all(h) ==
    SumScores(h, Counted(h)) * (FactorLcm \div Cardinality(ScoredMetrics))

\* score / max(1, factors) if factors > 0 else 0.0, in 1/ScoreScale.
calculate_health_score(h) ==
    LET factors == Cardinality(Counted(h))
        score == SumScores(h, Counted(h))
    IN  IF factors > 0 THEN score * (FactorLcm \div Max(1, factors)) ELSE 0

\* ------------------------------------------------------------- texts
\* A str is the tuple of its characters.

\* Texts the language model may return.

\* Rest well
TxtRest ==
    << "R", "e", "s", "t", " ", "w", "e", "l", "l" >>

\* See a DOCTOR
TxtDoctor ==
    << "S", "e", "e", " ", "a", " ", "D", "O", "C", "T", "O", "R" >>

\* Go to the Hospital
TxtHospital ==
    << "G", "o", " ", "t", "o", " ", "t", "h", "e", " ", "H", "o", "s", "p", "i", "t", "a",
       "l" >>

\* drink water, exercise, sleep, medication
TxtWater ==
    << "d", "r", "i", "n", "k", " ", "w", "a", "t", "e", "r", ",", " ", "e", "x", "e", "r",
       "c", "i", "s", "e", ",", " ", "s", "l", "e", "e", "p", ",", " ", "m", "e", "d", "i",
       "c", "a", "t", "i", "o", "n" >>

\* {}
TxtEmptyObj ==
    << "{", "}" >>

\* []
TxtList ==
    << "[", "]" >>

\* 7
TxtNum ==
    << "7" >>

\* {"summary":"s","risk_assessment":"r","health_metrics":{},"recommendations":"c","priority_level":"Low"}
TxtFull ==
    << "{", "\"", "s", "u", "m", "m", "a", "r", "y", "\"", ":", "\"", "s", "\"", ",", "\"",
       "r", "i", "s", "k", "_", "a", "s", "s", "e", "s", "s", "m", "e", "n", "t", "\"",
       ":", "\"", "r", "\"", ",", "\"", "h", "e", "a", "l", "t", "h", "_", "m", "e", "t",
       "r", "i", "c", "s", "\"", ":", "{", "}", ",", "\"", "r", "e", "c", "o", "m", "m",
       "e", "n", "d", "a", "t", "i", "o", "n", "s", "\"", ":", "\"", "c", "\"", ",", "\"",
       "p", "r", "i", "o", "r", "i", "t", "y", "_", "l", "e", "v", "e", "l", "\"", ":",
       "\"", "L", "o", "w", "\"", "}" >>

\* {"summary":"s","risk_assessment":{}}
TxtRiskObj ==
    << "{", "\"", "s", "u", "m", "m", "a", "r", "y", "\"", ":", "\"", "s", "\"", ",", "\"",
       "r", "i", "s", "k", "_", "a", "s", "s", "e", "s", "s", "m", "e", "n", "t", "\"",
       ":", "{", "}", "}" >>

\* {"emergency_detected":true}
TxtEmergency ==
    << "{", "\"", "e", "m", "e", "r", "g", "e", "n", "c", "y", "_", "d", "e", "t", "e",
       "c", "t", "e", "d", "\"", ":", "t", "r", "u", "e", "}" >>

\* {"emergency_detected":false}
TxtNoEmergency ==
    << "{", "\"", "e", "m", "e", "r", "g", "e", "n", "c", "y", "_", "d", "e", "t", "e",
       "c", "t", "e", "d", "\"", ":", "f", "a", "l", "s", "e", "}" >>

\* Messages a user may send to the assistant.

\* the empty string
MsgEmpty ==
    <<  >>

\* hello
MsgHello ==
    << "h", "e", "l", "l", "o" >>

\* I have Chest Pain
MsgChestPain ==
    << "I", " ", "h", "a", "v", "e", " ", "C", "h", "e", "s", "t", " ", "P", "a", "i",
       "n" >>

\* I feel dizzy
MsgDizzy ==
    << "I", " ", "f", "e", "e", "l", " ", "d", "i", "z", "z", "y" >>

\* my chest
MsgChest ==
    << "m", "y", " ", "c", "h", "e", "s", "t" >>

\* painting
MsgPainting ==
    << "p", "a", "i", "n", "t", "i", "n", "g" >>

\* URGENT
MsgUrgent ==
    << "U", "R", "G", "E", "N", "T" >>

\* fever and nausea
MsgFever ==
    << "f", "e", "v", "e", "r", " ", "a", "n", "d", " ", "n", "a", "u", "s", "e", "a" >>

\* ai_services.py 135
emergency_keywords ==
    { << "e", "m", "e", "r", "g", "e", "n", "c", "y" >>,
      << "u", "r", "g", "e", "n", "t" >>,
      << "s", "e", "v", "e", "r", "e" >>,
      << "c", "r", "i", "t", "i", "c", "a", "l" >>,
      << "i", "m", "m", "e", "d", "i", "a", "t", "e", "l", "y" >>,
      << "h", "o", "s", "p", "i", "t", "a", "l" >>,
      << "9", "1", "1" >>,
      << "c", "h", "e", "s", "t", " ", "p", "a", "i", "n" >>,
      << "b", "r", "e", "a", "t", "h", "i", "n", "g" >>,
      << "u", "n", "c", "o", "n", "s", "c", "i", "o", "u", "s" >> }

\* ai_services.py 136
high_keywords ==
    { << "p", "a", "i", "n" >>,
      << "f", "e", "v", "e", "r" >>,
      << "b", "l", "e", "e", "d", "i", "n", "g" >>,
      << "d", "i", "z", "z", "y" >>,
      << "n", "a", "u", "s", "e", "a" >>,
      << "d", "o", "c", "t", "o", "r" >> }

Kw_drink == << "d", "r", "i", "n", "k" >>

Kw_water == << "w", "a", "t", "e", "r" >>

Kw_exercise == << "e", "x", "e", "r", "c", "i", "s", "e" >>

Kw_sleep == << "s", "l", "e", "e", "p" >>

Kw_doctor == << "d", "o", "c", "t", "o", "r" >>

Kw_medical == << "m", "e", "d", "i", "c", "a", "l" >>

Kw_medication == << "m", "e", "d", "i", "c", "a", "t", "i", "o", "n" >>

Ellipsis == << ".", ".", "." >>

\* str.lower() on the ASCII letters.
UpperToLower ==
    [ A |-> "a", B |-> "b", C |-> "c", D |-> "d", E |-> "e", F |-> "f", G |-> "g", H |-> "h", I |-> "i", J |-> "j", K |-> "k", L |-> "l", M |-> "m",
      N |-> "n", O |-> "o", P |-> "p", Q |-> "q", R |-> "r", S |-> "s", T |-> "t", U |-> "u", V |-> "v", W |-> "w", X |-> "x", Y |-> "y", Z |-> "z" ]

\* The cut of analyze_medical_record's fallback summary, server.py 225.
SummaryLimit == 300
\* A text longer than SummaryLimit that is not JSON.
TxtLong == [i \in 1..(SummaryLimit + 1) |-> "a"]

NonJsonTexts == {TxtRest, TxtDoctor, TxtHospital, TxtWater, TxtLong}
JsonTexts == {TxtEmptyObj, TxtList, TxtNum, TxtFull, TxtRiskObj, TxtEmergency, TxtNoEmergency}
Texts == NonJsonTexts \cup JsonTexts
Messages == {MsgEmpty, MsgHello, MsgChestPain, MsgDizzy, MsgChest, MsgPainting, MsgUrgent,
             MsgFever}

\* What `await chat.send_message(...)` does: it raises, or it returns a text.
LlmError == [raised |-> TRUE, text |-> << >>]
LlmText(text) == [raised |-> FALSE, text |-> text]
LlmOutcomes == {LlmError} \cup {LlmText(text) : text \in Texts}

Lower(c) == IF c \in DOMAIN UpperToLower THEN UpperToLower[c] ELSE c
LowerStr(s) == [i \in 1..Len(s) |-> Lower(s[i])]
\* `kw in text` for a non-empty kw.
Contains(kw, text) ==
    \E i \in 1..(Len(text) - Len(kw) + 1) : SubSeq(text, i, i + Len(kw) - 1) = kw

\* ------------------------------------------------------ Python values
\* One shape for every value, so that any two can be compared: the type, a
\* literal str, a str given by its characters, a number or bool, and the items
\* of a list or the << key, value >> entries of a dict in insertion order.
PyNone == << "none", "", << >>, 0, << >> >>
PyStr(literal) == << "str", literal, << >>, 0, << >> >>
PyText(chars) == << "str", "", chars, 0, << >> >>
PyNum(number) == << "num", "", << >>, number, << >> >>
PyBool(b) == << "bool", "", << >>, IF b THEN 1 ELSE 0, << >> >>
PyList(items) == << "list", "", << >>, 0, items >>
PyDict(entries) == << "dict", "", << >>, 0, entries >>
EmptyDict == PyDict(<< >>)

PyType(v) == v[1]
PyChars(v) == v[3]
PyItems(v) == v[5]

\* bool(v)
PyTruthy(v) ==
    CASE PyType(v) = "none" -> FALSE
      [] PyType(v) = "str"  -> v[2] # "" \/ PyChars(v) # << >>
      [] PyType(v) \in {"num", "bool"} -> v[4] # 0
      [] OTHER -> PyItems(v) # << >>

\* The keys of a dict d.
Keys(d) == {PyItems(d)[i][1] : i \in 1..Len(PyItems(d))}

\* d.get(k, default) of a dict d.
DictGet(d, k, default) ==
    IF k \in Keys(d)
    THEN PyItems(d)[CHOOSE i \in 1..Len(PyItems(d)) : PyItems(d)[i][1] = k][2]
    ELSE default

\* What json.loads raises, in the place of a value.
JSONDecodeError == << "JSONDecodeError", "", << >>, 0, << >> >>

\* json.loads(text): the decoded value, or JSONDecodeError.
JsonLoads(text) ==
    CASE text = TxtEmptyObj -> EmptyDict
      [] text = TxtList     -> PyList(<< >>)
      [] text = TxtNum      -> PyNum(7)
      [] text = TxtFull     -> PyDict(<< << "summary", PyStr("s") >>, << "risk_assessment", PyStr("r") >>,
                    << "health_metrics", EmptyDict >>, << "recommendations", PyStr("c") >>,
                    << "priority_level", PyStr("Low") >> >>)
      [] text = TxtRiskObj  -> PyDict(<< << "summary", PyStr("s") >>, << "risk_assessment", EmptyDict >> >>)
      [] text = TxtEmergency   -> PyDict(<< << "emergency_detected", PyBool(TRUE) >> >>)
      [] text = TxtNoEmergency -> PyDict(<< << "emergency_detected", PyBool(FALSE) >> >>)
      [] OTHER -> JSONDecodeError


\* ------------------------------------------------ AIHealthAssistant helpers
\* The tiers looked up in the wrong order.
analyze_urgency_high_first(message, response) ==
    LET text_to_check == LowerStr(message \o <<" ">> \o response)
    IN  IF \E keyword \in high_keywords : Contains(keyword, text_to_check)
        THEN "high"
        ELSE IF \E keyword \in emergency_keywords : Contains(keyword, text_to_check)
        THEN "emergency"
        ELSE "medium"

\* AIHealthAssistant._analyze_urgency
analyze_urgency(message, response) ==
    LET text_to_check == LowerStr(message \o <<" ">> \o response)
    IN  IF \E keyword \in emergency_keywords : Contains(keyword, text_to_check)
        THEN "emergency"
        ELSE IF \E keyword \in high_keywords : Contains(keyword, text_to_check)
        THEN "high"
        ELSE "medium"

\* The first k items of a list, list[:k].
Head3(list) == SubSeq(list, 1, Min(Len(list), 3))

\* AIHealthAssistant._extract_recommendations
extract_recommendations(response) ==
    LET r == LowerStr(response)
        recommendations ==
            (IF Contains(Kw_drink, r) /\ Contains(Kw_water, r)
             THEN << PyStr("Increase water intake") >> ELSE << >>)
            \o (IF Contains(Kw_exercise, r)
                THEN << PyStr("Regular physical activity") >> ELSE << >>)
            \o (IF Contains(Kw_sleep, r)
                THEN << PyStr("Improve sleep habits") >> ELSE << >>)
            \o (IF Contains(Kw_doctor, r) \/ Contains(Kw_medical, r)
                THEN << PyStr("Consult healthcare provider") >> ELSE << >>)
            \o (IF Contains(Kw_medication, r)
                THEN << PyStr("Review medication schedule") >> ELSE << >>)
    IN  Head3(recommendations)

\* ------------------------------------------------------- the AI producers
\* server.py analyze_medical_record: what it returns when the call raised.
RecordErrorFallback ==
    PyDict(<< << "summary", PyStr("Medical record uploaded successfully. AI analysis temporarily unavailable.") >>,
            << "risk_assessment", PyStr("Please consult healthcare provider for assessment.") >>,
            << "health_metrics", PyDict(<< << "status", PyStr("pending") >> >>) >>,
            << "recommendations", PyStr("Follow prescribed treatment plan.") >>,
            << "priority_level", PyStr("Medium") >> >>)

\* server.py analyze_medical_record: what it builds around a text that is not JSON.
RecordTextFallback(summary) ==
    PyDict(<< << "summary", PyText(summary) >>,
            << "risk_assessment", PyStr("Comprehensive medical analysis completed. Consult healthcare provider for detailed assessment.") >>,
            << "health_metrics", PyDict(<< << "status", PyStr("extracted") >> >>) >>,
            << "recommendations", PyStr("Follow medical advice and maintain regular checkups.") >>,
            << "priority_level", PyStr("Medium") >> >>)

\* response[:300] + "..." if len(response) > 300 else response
CutSummary(response) ==
    IF Len(response) > SummaryLimit
    THEN SubSeq(response, 1, SummaryLimit) \o Ellipsis
    ELSE response

\* The fallback summary taken whole.
analyze_medical_record_uncut(llm) ==
    IF llm.raised THEN RecordErrorFallback
    ELSE LET decoded == JsonLoads(llm.text)
         IN  IF decoded # JSONDecodeError THEN decoded
             ELSE RecordTextFallback(llm.text)

\* server.py analyze_medical_record
analyze_medical_record(llm) ==
    IF llm.raised THEN RecordErrorFallback
    ELSE LET decoded == JsonLoads(llm.text)
         IN  IF decoded # JSONDecodeError THEN decoded
             ELSE RecordTextFallback(CutSummary(llm.text))

ConsultationErrorFallback ==
    PyDict(<< << "response", PyStr("I'm experiencing technical difficulties right now. For urgent health concerns, please contact your healthcare provider or emergency services immediately.") >>,
            << "urgency_level", PyStr("medium") >>,
            << "recommendations", PyList(<< PyStr("Contact healthcare provider"),
                                          PyStr("Monitor symptoms") >>) >>,
            << "follow_up_suggested", PyBool(TRUE) >> >>)

\* AIHealthAssistant.get_health_consultation
get_health_consultation(message, llm) ==
    IF llm.raised THEN ConsultationErrorFallback
    ELSE PyDict(<< << "response", PyText(llm.text) >>,
                 << "urgency_level", PyStr(analyze_urgency(message, llm.text)) >>,
                 << "recommendations", PyList(extract_recommendations(llm.text)) >>,
                 << "follow_up_suggested", PyBool(Contains(Kw_doctor, LowerStr(llm.text))
                            \/ Contains(Kw_medical, LowerStr(llm.text))) >> >>)

\* The health_score a user document may carry (None: the key is missing).
TrendScores == {None, Some(95), Some(80), Some(50)}
DefaultTrendScore == 85

\* PredictiveHealthAnalytics._create_fallback_analysis
create_fallback_analysis(score) ==
    LET health_score == IF score = None THEN DefaultTrendScore ELSE Val(score)
        risk_level == IF health_score >= 90 THEN "low"
                      ELSE IF health_score >= 75 THEN "medium" ELSE "high"
        risk_percentage == IF health_score >= 90 THEN 15
                           ELSE IF health_score >= 75 THEN 35 ELSE 65
    IN  PyDict(<< << "overall_health_score", PyNum(health_score) >>,
                << "risk_predictions", PyList(<<
                    PyDict(<< << "condition", PyStr("General Health Decline") >>,
                            << "risk_level", PyStr(risk_level) >>,
                            << "risk_percentage", PyNum(risk_percentage) >>,
                            << "confidence", PyNum(75) >>,
                            << "factors", PyList(<< PyStr("Health score"),
                                                  PyStr("Habit consistency") >>) >>,
                            << "timeline", PyStr("6-12 months") >> >>) >>) >>,
                << "trend_analysis", PyDict(<< 
                    << "improving", PyList(<< PyStr("Overall wellness tracking") >>) >>,
                    << "declining", PyList(<< >>) >>,
                    << "stable", PyList(<< PyStr("Health score maintenance") >>) >> >>) >>,
                << "recommendations", PyList(<<
                    PyStr("Maintain consistent health habits"),
                    PyStr("Regular health monitoring"),
                    PyStr("Consult healthcare provider annually") >>) >>,
                << "predicted_outcomes", PyList(<<
                    PyStr("Continued health improvement with consistent habits") >>) >> >>)

\* The error path forgetting the user's own score.
analyze_health_trends_default(score, llm) ==
    IF llm.raised THEN create_fallback_analysis(None)
    ELSE LET decoded == JsonLoads(llm.text)
         IN  IF decoded # JSONDecodeError THEN decoded
             ELSE create_fallback_analysis(score)

\* PredictiveHealthAnalytics.analyze_health_trends
analyze_health_trends(score, llm) ==
    IF llm.raised THEN create_fallback_analysis(score)
    ELSE LET decoded == JsonLoads(llm.text)
         IN  IF decoded # JSONDecodeError THEN decoded
             ELSE create_fallback_analysis(score)

InteractionErrorFallback ==
    PyDict(<< << "interaction_level", PyStr("error") >>,
            << "interactions", PyList(<< >>) >>,
            << "warnings", PyList(<< PyStr("System error. Consult healthcare provider immediately.") >>) >>,
            << "recommendations", PyList(<< PyStr("Contact pharmacist for interaction check") >>) >>,
            << "safe_to_take", PyBool(FALSE) >> >>)

InteractionTextFallback ==
    PyDict(<< << "interaction_level", PyStr("unknown") >>,
            << "interactions", PyList(<< >>) >>,
            << "warnings", PyList(<< PyStr("Unable to analyze interactions. Consult pharmacist.") >>) >>,
            << "recommendations", PyList(<< PyStr("Verify with healthcare provider") >>) >>,
            << "safe_to_take", PyBool(FALSE) >> >>)

\* The fallback for a text that is not JSON without its safe_to_take.
check_medication_interactions_partial(llm) ==
    IF llm.raised THEN InteractionErrorFallback
    ELSE LET decoded == JsonLoads(llm.text)
         IN  IF decoded # JSONDecodeError THEN decoded
             ELSE PyDict(<< << "interaction_level", PyStr("unknown") >>,
                          << "interactions", PyList(<< >>) >>,
                          << "warnings", PyList(<< >>) >>,
                          << "recommendations", PyList(<< >>) >> >>)

\* MedicationInteractionChecker.check_medication_interactions
check_medication_interactions(llm) ==
    IF llm.raised THEN InteractionErrorFallback
    ELSE LET decoded == JsonLoads(llm.text)
         IN  IF decoded # JSONDecodeError THEN decoded
             ELSE InteractionTextFallback

\* What result.get raises on a value that is not a dict, in the place of a value.
AttributeError == << "AttributeError", "", << >>, 0, << >> >>

\* The AttributeError of a decoded list or number let through to the caller.
analyze_for_emergencies_unguarded(llm) ==
    IF llm.raised THEN PyNone
    ELSE LET decoded == JsonLoads(llm.text)
         IN  IF decoded = JSONDecodeError THEN PyNone
             ELSE IF PyType(decoded) # "dict" THEN AttributeError
             ELSE IF PyTruthy(DictGet(decoded, "emergency_detected", PyNone))
             THEN decoded
             ELSE PyNone

\* EmergencyDetectionAI.analyze_for_emergencies; result.get of a value that
\* is not a dict raises AttributeError, which the outer handler turns to None.
analyze_for_emergencies(llm) ==
    IF llm.raised THEN PyNone
    ELSE LET decoded == JsonLoads(llm.text)
         IN  IF decoded = JSONDecodeError THEN PyNone
             ELSE IF PyType(decoded) # "dict" THEN PyNone
             ELSE IF PyTruthy(DictGet(decoded, "emergency_detected", PyNone))
             THEN decoded
             ELSE PyNone

VARIABLES users, habits, token_transactions, req, nreq, day,
          medical_records, paperwork_templates, ai
vars == << users, habits, token_transactions, req, nreq, day,
          medical_records, paperwork_templates, ai >>
\* What the habit and token handlers never touch.
others == << medical_records, paperwork_templates, ai >>

\* users: id -> the stored User document (the fields the handlers touch).
\* habits, token_transactions: the collections, in insertion order.
\* req[p]: the handler p is running (its locals and where it is suspended).
\* nreq: requests accepted so far; it also stands for the uuid4 of the
\*       documents a request creates.  day: the current UTC date.
\* medical_records, paperwork_templates: the collections, in insertion order.
\* ai: the last call of an ai_services producer, with its arguments and result.
\* req[p].llm_calls counts the chat.send_message calls of the request, llm is
\* what the last one did, analysis and content are what the handler got back.

\* No producer of ai_services has been called.
NoCall ==
    [fn |-> "none", message |-> << >>, score |-> None, llm |-> LlmError, result |-> PyNone]

\* User(...) defaults, server.py 41-42.
NewUser == [tokens |-> 0, health_score |-> 85 * ScoreScale]

Idle == [pc |-> "idle", op |-> "none", rid |-> 0, user_id |-> GhostId, today |-> 0,
         habit_data |-> NoMetrics, tokens_earned |-> 0, health_score_impact |-> 0,
         amount |-> 0, description |-> << >>, status |-> 0,
         llm_calls |-> 0, llm |-> LlmError, analysis |-> PyNone, content |-> PyNone,
         target |-> 0, new_favorite_status |-> FALSE,
         current_tokens |-> 0, total_earned |-> 0, total_spent |-> 0,
         tokens_earned_total |-> 0, habit_streak |-> 0]

Init ==
    /\ users = << >>
    /\ habits = << >>
    /\ token_transactions = << >>
    /\ req = [p \in Procs |-> Idle]
    /\ nreq = 0
    /\ day = 0
    /\ medical_records = << >>
    /\ paperwork_templates = << >>
    /\ ai = NoCall

\* A handler slot is free before its first request and after it has responded.
Free(p) == req[p].pc \in {"idle", "done"}

\* A client names the id of an existing user or an id that was never handed out.
KnownIds == DOMAIN users \cup {GhostId}

\* POST /users: one insert_one.
create_user(u) ==
    /\ u \in UserIds \ DOMAIN users
    /\ users' = [x \in DOMAIN users \cup {u} |-> IF x = u THEN NewUser ELSE users[x]]
    /\ UNCHANGED << habits, token_transactions, req, nreq, day >>
    /\ UNCHANGED others

\* The clock passes midnight UTC.
AdvanceDay ==
    /\ day < MaxDay
    /\ day' = day + 1
    /\ UNCHANGED << users, habits, token_transactions, req, nreq >>
    /\ UNCHANGED others

\* Mutant: the duplicate check forgets the date.
HabitExistsAnyDate(u, d) == \E i \in DOMAIN habits : habits[i].user_id = u

\* db.habits.find_one({"user_id": u, "date": d}) finds a document.
HabitExists(u, d) == \E i \in DOMAIN habits : habits[i].user_id = u /\ habits[i].date = d

\* POST /habits arrives: line 452, up to the first await.
LogHabitStart(p, u, h) ==
    /\ Free(p)
    /\ nreq < MaxRequests
    /\ u \in KnownIds
    /\ nreq' = nreq + 1
    /\ req' = [req EXCEPT ![p] = [Idle EXCEPT !.pc = "lh_find", !.op = "log_habit",
                                              !.rid = nreq + 1, !.user_id = u,
                                              !.today = day, !.habit_data = h]]
    /\ UNCHANGED << users, habits, token_transactions, day >>
    /\ UNCHANGED others

\* The duplicate is refused but stored all the same.
LogHabitFindStoring(p) ==
    /\ req[p].pc = "lh_find"
    /\ IF HabitExists(req[p].user_id, req[p].today)
       THEN /\ req' = [req EXCEPT ![p].pc = "done", ![p].status = 400]
            /\ habits' = Append(habits, [id |-> req[p].rid, user_id |-> req[p].user_id,
                                         date |-> req[p].today,
                                         metrics |-> req[p].habit_data,
                                         tokens_earned |-> 0, health_score_impact |-> 0])
       ELSE /\ req' = [req EXCEPT ![p].pc = "lh_insert",
                                  ![p].tokens_earned = TokenReward(req[p].habit_data),
                                  ![p].health_score_impact =
                                      calculate_health_score(req[p].habit_data)]
            /\ habits' = habits
    /\ UNCHANGED << users, token_transactions, nreq, day >>
    /\ UNCHANGED others

\* Lines 455-491: the duplicate check, then reward and score.
LogHabitFind(p) ==
    /\ req[p].pc = "lh_find"
    /\ IF HabitExists(req[p].user_id, req[p].today)
       THEN req' = [req EXCEPT ![p].pc = "done", ![p].status = 400]
       ELSE req' = [req EXCEPT ![p].pc = "lh_insert",
                               ![p].tokens_earned = TokenReward(req[p].habit_data),
                               ![p].health_score_impact = calculate_health_score(req[p].habit_data)]
    /\ UNCHANGED << users, habits, token_transactions, nreq, day >>
    /\ UNCHANGED others

\* The insert done as an upsert on (user_id, date).
LogHabitInsertUpsert(p) ==
    /\ req[p].pc = "lh_insert"
    /\ LET doc == [id |-> req[p].rid, user_id |-> req[p].user_id,
                   date |-> req[p].today, metrics |-> req[p].habit_data,
                   tokens_earned |-> req[p].tokens_earned,
                   health_score_impact |-> req[p].health_score_impact]
       IN  IF HabitExists(req[p].user_id, req[p].today)
           THEN habits' = [i \in DOMAIN habits |->
                              IF habits[i].user_id = req[p].user_id
                                 /\ habits[i].date = req[p].today
                              THEN doc ELSE habits[i]]
           ELSE habits' = Append(habits, doc)
    /\ req' = [req EXCEPT ![p].pc = "lh_update"]
    /\ UNCHANGED << users, token_transactions, nreq, day >>
    /\ UNCHANGED others

\* Lines 493-495: db.habits.insert_one.
LogHabitInsert(p) ==
    /\ req[p].pc = "lh_insert"
    /\ habits' = Append(habits, [id |-> req[p].rid, user_id |-> req[p].user_id,
                                 date |-> req[p].today, metrics |-> req[p].habit_data,
                                 tokens_earned |-> req[p].tokens_earned,
                                 health_score_impact |-> req[p].health_score_impact])
    /\ req' = [req EXCEPT ![p].pc = "lh_update"]
    /\ UNCHANGED << users, token_transactions, nreq, day >>
    /\ UNCHANGED others

\* Mutant: the score is stored as the health score without the clamp.
LogHabitUpdateNoClamp(p) ==
    /\ req[p].pc = "lh_update"
    /\ users' = [x \in DOMAIN users |->
                   IF x = req[p].user_id
                   THEN [users[x] EXCEPT !.health_score = req[p].health_score_impact]
                   ELSE users[x]]
    /\ IF req[p].tokens_earned > 0
       THEN req' = [req EXCEPT ![p].pc = "aw_inc", ![p].amount = req[p].tokens_earned,
                               ![p].description = << "Healthy habits", req[p].today >>]
       ELSE req' = [req EXCEPT ![p].pc = "done", ![p].status = 200]
    /\ UNCHANGED << habits, token_transactions, nreq, day >>
    /\ UNCHANGED others

\* Mutant: award_tokens is called whatever tokens_earned is.
LogHabitUpdateAlwaysAward(p) ==
    /\ req[p].pc = "lh_update"
    /\ users' = [x \in DOMAIN users |->
                   IF x = req[p].user_id
                   THEN [users[x] EXCEPT !.health_score =
                            Min(100 * ScoreScale, Max(0, req[p].health_score_impact))]
                   ELSE users[x]]
    /\ req' = [req EXCEPT ![p].pc = "aw_inc", ![p].amount = req[p].tokens_earned,
                          ![p].description = << "Healthy habits", req[p].today >>]
    /\ UNCHANGED << habits, token_transactions, nreq, day >>
    /\ UNCHANGED others

\* Lines 498-507: $set health_score, then award_tokens when tokens_earned > 0.
LogHabitUpdate(p) ==
    /\ req[p].pc = "lh_update"
    /\ users' = [x \in DOMAIN users |->
                   IF x = req[p].user_id
                   THEN [users[x] EXCEPT !.health_score =
                            Min(100 * ScoreScale, Max(0, req[p].health_score_impact))]
                   ELSE users[x]]
    /\ IF req[p].tokens_earned > 0
       THEN req' = [req EXCEPT ![p].pc = "aw_inc", ![p].amount = req[p].tokens_earned,
                               ![p].description = << "Healthy habits", req[p].today >>]
       ELSE req' = [req EXCEPT ![p].pc = "done", ![p].status = 200]
    /\ UNCHANGED << habits, token_transactions, nreq, day >>
    /\ UNCHANGED others

\* The balance written with $set instead of $inc.
AwardIncSet(p) ==
    /\ req[p].pc = "aw_inc"
    /\ users' = [x \in DOMAIN users |->
                   IF x = req[p].user_id
                   THEN [users[x] EXCEPT !.tokens = req[p].amount]
                   ELSE users[x]]
    /\ req' = [req EXCEPT ![p].pc = "aw_insert"]
    /\ UNCHANGED << habits, token_transactions, nreq, day >>
    /\ UNCHANGED others

\* award_tokens, lines 605-608: update_one $inc (no document when the id is unknown).
AwardInc(p) ==
    /\ req[p].pc = "aw_inc"
    /\ users' = [x \in DOMAIN users |->
                   IF x = req[p].user_id
                   THEN [users[x] EXCEPT !.tokens = @ + req[p].amount]
                   ELSE users[x]]
    /\ req' = [req EXCEPT ![p].pc = "aw_insert"]
    /\ UNCHANGED << habits, token_transactions, nreq, day >>
    /\ UNCHANGED others

\* award_tokens, lines 610-617: insert the TokenTransaction; the caller then returns.
AwardInsert(p) ==
    /\ req[p].pc = "aw_insert"
    /\ token_transactions' = Append(token_transactions,
            [id |-> req[p].rid, user_id |-> req[p].user_id, amount |-> req[p].amount,
             transaction_type |-> "earned", description |-> req[p].description])
    /\ req' = [req EXCEPT ![p].pc = "done", ![p].status = 200]
    /\ UNCHANGED << users, habits, nreq, day >>
    /\ UNCHANGED others

Next ==
    \/ \E u \in UserIds : create_user(u)
    \/ AdvanceDay
    \/ \E p \in Procs, u \in RequestIds, h \in HabitInputs : LogHabitStart(p, u, h)
    \/ \E p \in Procs : LogHabitFind(p)
    \/ \E p \in Procs : LogHabitInsert(p)
    \/ \E p \in Procs : LogHabitUpdate(p)
    \/ \E p \in Procs : AwardInc(p)
    \/ \E p \in Procs : AwardInsert(p)

Spec == Init /\ [][Next]_vars

\* ------------------------------------------------- scoring specification
\* One POST /habits for an existing user, its body any element of HabitSpace.
ScoreInit ==
    /\ users = [x \in {"u1"} |-> NewUser]
    /\ habits = << >>
    /\ token_transactions = << >>
    /\ req = [p \in Procs |-> Idle]
    /\ nreq = 0
    /\ day = 0
    /\ medical_records = << >>
    /\ paperwork_templates = << >>
    /\ ai = NoCall

ScoreNext ==
    \/ (nreq = 0 /\ \E h \in HabitSpace : LogHabitStart("p1", "u1", h))
    \/ LogHabitFind("p1")
    \/ LogHabitInsert("p1")
    \/ LogHabitUpdate("p1")
    \/ AwardInc("p1")
    \/ AwardInsert("p1")

ScoreSpec == ScoreInit /\ [][ScoreNext]_vars

\* ------------------------------------------------- AI producer specification
\* One call of a producer: its inputs, what the LLM did, what it returned.
Called(fn, message, score, llm, result) ==
    /\ ai' = [fn |-> fn, message |-> message, score |-> score, llm |-> llm,
              result |-> result]
    /\ UNCHANGED << users, habits, token_transactions, req, nreq, day,
                    medical_records, paperwork_templates >>

AnalyzeUrgency(message, response) ==
    Called("_analyze_urgency", message, None, LlmText(response),
           PyStr(analyze_urgency(message, response)))

AnalyzeMedicalRecord(llm) ==
    Called("analyze_medical_record", << >>, None, llm, analyze_medical_record(llm))

GetHealthConsultation(message, llm) ==
    Called("get_health_consultation", message, None, llm,
           get_health_consultation(message, llm))

AnalyzeHealthTrends(score, llm) ==
    Called("analyze_health_trends", << >>, score, llm, analyze_health_trends(score, llm))

CheckMedicationInteractions(llm) ==
    Called("check_medication_interactions", << >>, None, llm,
           check_medication_interactions(llm))

AnalyzeForEmergencies(llm) ==
    Called("analyze_for_emergencies", << >>, None, llm, analyze_for_emergencies(llm))

AiNext ==
    \/ \E m \in Messages, text \in Texts : AnalyzeUrgency(m, text)
    \/ \E llm \in LlmOutcomes : AnalyzeMedicalRecord(llm)
    \/ \E m \in Messages, llm \in LlmOutcomes : GetHealthConsultation(m, llm)
    \/ \E sc \in TrendScores, llm \in LlmOutcomes : AnalyzeHealthTrends(sc, llm)
    \/ \E llm \in LlmOutcomes : CheckMedicationInteractions(llm)
    \/ \E llm \in LlmOutcomes : AnalyzeForEmergencies(llm)

AiSpec == Init /\ [][AiNext]_vars

\* ------------------------------------------------------- API specification
\* Every state-changing endpoint of server.py, two handler slots.
MaxApiRequests == 2

\* What the LLM may do to analyze_medical_record, one of each kind: raise,
\* plain text, the JSON object asked for, a JSON list, a JSON object whose
\* risk_assessment is an object.
RecordLlmOutcomes ==
    {LlmError, LlmText(TxtRest), LlmText(TxtFull), LlmText(TxtList), LlmText(TxtRiskObj)}

\* What the LLM may do to generate_paperwork.
PaperworkLlmOutcomes == {LlmError, LlmText(TxtRest)}

\* The ids a client may name for a record or a template.
DocIds == 1..MaxApiRequests

\* A request of a user-naming endpoint arrives and runs to pc, or ends at once.
ApiStart(p, u, op, pc, status) ==
    /\ Free(p)
    /\ nreq < MaxApiRequests
    /\ u \in KnownIds
    /\ nreq' = nreq + 1
    /\ req' = [req EXCEPT ![p] = [Idle EXCEPT !.pc = pc, !.op = op, !.rid = nreq + 1,
                                              !.user_id = u, !.today = day,
                                              !.status = status]]

\* POST /habits with the body of the repository's test.
ApiLogHabit(p, u) ==
    /\ nreq < MaxApiRequests
    /\ LogHabitStart(p, u, TestHabit)

\* POST /medical-records arrives, line 422 up to the await.
CreateMedicalRecordStart(p, u) ==
    /\ ApiStart(p, u, "create_medical_record", "mr_llm", 0)
    /\ UNCHANGED << users, habits, token_transactions, day >>
    /\ UNCHANGED others

\* POST /upload-medical-record arrives, lines 360-369: the size check raises
\* HTTPException(400) inside the try, whose `except Exception` answers 500.
UploadMedicalRecordStart(p, u, too_large) ==
    /\ IF too_large
       THEN ApiStart(p, u, "upload_medical_record", "done", 500)
       ELSE ApiStart(p, u, "upload_medical_record", "mr_llm", 0)
    /\ UNCHANGED << users, habits, token_transactions, day >>
    /\ UNCHANGED others

\* analysis.get(...) needs a dict; MedicalRecord(...) needs ai_summary and
\* risk_assessment to be str or None and health_metrics to be a dict or None.
RecordBuilds(analysis) ==
    /\ PyType(analysis) = "dict"
    /\ PyType(DictGet(analysis, "summary", PyStr(""))) \in {"str", "none"}
    /\ PyType(DictGet(analysis, "risk_assessment", PyStr(""))) \in {"str", "none"}
    /\ PyType(DictGet(analysis, "health_metrics", EmptyDict)) \in {"dict", "none"}

\* The stored record without its ai_summary.
MedicalRecordOfNoSummary(rid, u, analysis) ==
    [id |-> rid, user_id |-> u,
     ai_summary |-> PyNone,
     risk_assessment |-> DictGet(analysis, "risk_assessment", PyStr("")),
     health_metrics |-> DictGet(analysis, "health_metrics", EmptyDict)]

\* Lines 425-429 (379-386): the document built from the analysis.
MedicalRecordOf(rid, u, analysis) ==
    [id |-> rid, user_id |-> u,
     ai_summary |-> DictGet(analysis, "summary", PyStr("")),
     risk_assessment |-> DictGet(analysis, "risk_assessment", PyStr("")),
     health_metrics |-> DictGet(analysis, "health_metrics", EmptyDict)]

\* A failed LLM call is tried again.
MedicalRecordAnalyzeRetry(p, llm) ==
    /\ req[p].pc = "mr_llm"
    /\ IF llm.raised \/ JsonLoads(llm.text) = JSONDecodeError
       THEN req' = [req EXCEPT ![p].llm_calls = @ + 1, ![p].llm = llm]
       ELSE LET analysis == analyze_medical_record(llm)
            IN  IF RecordBuilds(analysis)
                THEN req' = [req EXCEPT ![p].pc = "mr_insert", ![p].llm_calls = @ + 1,
                                        ![p].llm = llm, ![p].analysis = analysis]
                ELSE req' = [req EXCEPT ![p].pc = "done", ![p].llm_calls = @ + 1,
                                        ![p].llm = llm, ![p].analysis = analysis,
                                        ![p].status = 500]
    /\ UNCHANGED << users, habits, token_transactions, nreq, day >>
    /\ UNCHANGED others

\* await analyze_medical_record(...), lines 190-241, and the handler's code up
\* to its insert: an exception there ends the request with 500.
MedicalRecordAnalyze(p, llm) ==
    /\ req[p].pc = "mr_llm"
    /\ LET analysis == analyze_medical_record(llm)
       IN  IF RecordBuilds(analysis)
           THEN req' = [req EXCEPT ![p].pc = "mr_insert", ![p].llm_calls = @ + 1,
                                   ![p].llm = llm, ![p].analysis = analysis]
           ELSE req' = [req EXCEPT ![p].pc = "done", ![p].llm_calls = @ + 1,
                                   ![p].llm = llm, ![p].analysis = analysis,
                                   ![p].status = 500]
    /\ UNCHANGED << users, habits, token_transactions, nreq, day >>
    /\ UNCHANGED others

\* The record awarded like a form.
MedicalRecordInsertFormAward(p) ==
    /\ req[p].pc = "mr_insert"
    /\ medical_records' = Append(medical_records,
                                 MedicalRecordOf(req[p].rid, req[p].user_id, req[p].analysis))
    /\ req' = [req EXCEPT ![p].pc = "aw_inc", ![p].amount = 25,
                          ![p].description = << "Medical record" >>]
    /\ UNCHANGED << users, habits, token_transactions, nreq, day,
                    paperwork_templates, ai >>

\* db.medical_records.insert_one, then award_tokens(user_id, 50, ...).
MedicalRecordInsert(p) ==
    /\ req[p].pc = "mr_insert"
    /\ medical_records' = Append(medical_records,
                                 MedicalRecordOf(req[p].rid, req[p].user_id, req[p].analysis))
    /\ req' = [req EXCEPT ![p].pc = "aw_inc", ![p].amount = 50,
                          ![p].description = << "Medical record" >>]
    /\ UNCHANGED << users, habits, token_transactions, nreq, day,
                    paperwork_templates, ai >>

\* A sequence without its first element of the given id.
WithoutFirst(seq, id) ==
    LET i == CHOOSE k \in DOMAIN seq : seq[k].id = id /\ \A j \in 1..(k - 1) : seq[j].id # id
    IN  SubSeq(seq, 1, i - 1) \o SubSeq(seq, i + 1, Len(seq))

\* The delete taking back the 50 tokens of the record's owner.
delete_medical_record_revoking(p, id) ==
    /\ Free(p)
    /\ nreq < MaxApiRequests
    /\ nreq' = nreq + 1
    /\ IF \E k \in DOMAIN medical_records : medical_records[k].id = id
       THEN LET owner == medical_records[CHOOSE k \in DOMAIN medical_records :
                                             medical_records[k].id = id].user_id
            IN  /\ medical_records' = WithoutFirst(medical_records, id)
                /\ users' = [x \in DOMAIN users |->
                               IF x = owner THEN [users[x] EXCEPT !.tokens = @ - 50]
                               ELSE users[x]]
                /\ req' = [req EXCEPT ![p] = [Idle EXCEPT !.pc = "done", !.rid = nreq + 1,
                                                          !.op = "delete_medical_record",
                                                          !.target = id, !.status = 200]]
       ELSE /\ medical_records' = medical_records
            /\ users' = users
            /\ req' = [req EXCEPT ![p] = [Idle EXCEPT !.pc = "done", !.rid = nreq + 1,
                                                      !.op = "delete_medical_record",
                                                      !.target = id, !.status = 404]]
    /\ UNCHANGED << habits, token_transactions, day, paperwork_templates, ai >>

\* DELETE /medical-records/{record_id}: delete_one, 404 when nothing went.
delete_medical_record(p, id) ==
    /\ Free(p)
    /\ nreq < MaxApiRequests
    /\ nreq' = nreq + 1
    /\ IF \E k \in DOMAIN medical_records : medical_records[k].id = id
       THEN /\ medical_records' = WithoutFirst(medical_records, id)
            /\ req' = [req EXCEPT ![p] = [Idle EXCEPT !.pc = "done", !.rid = nreq + 1,
                                                      !.op = "delete_medical_record",
                                                      !.target = id, !.status = 200]]
       ELSE /\ medical_records' = medical_records
            /\ req' = [req EXCEPT ![p] = [Idle EXCEPT !.pc = "done", !.rid = nreq + 1,
                                                      !.op = "delete_medical_record",
                                                      !.target = id, !.status = 404]]
    /\ UNCHANGED << users, habits, token_transactions, day, paperwork_templates, ai >>

\* POST /paperwork arrives.
PaperworkStart(p, u) ==
    /\ ApiStart(p, u, "generate_smart_paperwork", "pw_find", 0)
    /\ UNCHANGED << users, habits, token_transactions, day >>
    /\ UNCHANGED others

\* Lines 554-556: find_one of the user, 404 without it.
PaperworkFind(p) ==
    /\ req[p].pc = "pw_find"
    /\ IF req[p].user_id \in DOMAIN users
       THEN req' = [req EXCEPT ![p].pc = "pw_llm"]
       ELSE req' = [req EXCEPT ![p].pc = "done", ![p].status = 404]
    /\ UNCHANGED << users, habits, token_transactions, nreq, day >>
    /\ UNCHANGED others

\* await generate_paperwork(...), lines 291-347: the LLM's text, or the
\* built-in form when the call raised.
PaperworkGenerate(p, llm) ==
    /\ req[p].pc = "pw_llm"
    /\ req' = [req EXCEPT ![p].pc = "pw_insert", ![p].llm_calls = @ + 1, ![p].llm = llm,
                          ![p].content = IF llm.raised THEN PyStr("MEDICAL FORM")
                                         ELSE PyText(llm.text)]
    /\ UNCHANGED << users, habits, token_transactions, nreq, day >>
    /\ UNCHANGED others

\* Lines 564-574: insert the template, then award_tokens(user_id, 25, ...).
PaperworkInsert(p) ==
    /\ req[p].pc = "pw_insert"
    /\ paperwork_templates' = Append(paperwork_templates,
            [id |-> req[p].rid, user_id |-> req[p].user_id, content |-> req[p].content,
             is_favorite |-> FALSE])
    /\ req' = [req EXCEPT ![p].pc = "aw_inc", ![p].amount = 25,
                          ![p].description = << "Smart paperwork" >>]
    /\ UNCHANGED << users, habits, token_transactions, nreq, day, medical_records, ai >>

\* POST /paperwork-templates/{template_id}/favorite arrives.
ToggleFavoriteStart(p, id) ==
    /\ Free(p)
    /\ nreq < MaxApiRequests
    /\ nreq' = nreq + 1
    /\ req' = [req EXCEPT ![p] = [Idle EXCEPT !.pc = "tf_find", !.rid = nreq + 1,
                                              !.op = "toggle_template_favorite",
                                              !.target = id]]
    /\ UNCHANGED << users, habits, token_transactions, day >>
    /\ UNCHANGED others

\* Lines 590-594: find_one of the template, 404 without it.
ToggleFavoriteFind(p) ==
    /\ req[p].pc = "tf_find"
    /\ IF \E k \in DOMAIN paperwork_templates : paperwork_templates[k].id = req[p].target
       THEN LET k == CHOOSE k \in DOMAIN paperwork_templates :
                        paperwork_templates[k].id = req[p].target
            IN  req' = [req EXCEPT ![p].pc = "tf_update",
                                   ![p].new_favorite_status =
                                       ~paperwork_templates[k].is_favorite]
       ELSE req' = [req EXCEPT ![p].pc = "done", ![p].status = 404]
    /\ UNCHANGED << users, habits, token_transactions, nreq, day >>
    /\ UNCHANGED others

\* Lines 595-600: update_one $set is_favorite.
ToggleFavoriteUpdate(p) ==
    /\ req[p].pc = "tf_update"
    /\ paperwork_templates' =
           [k \in DOMAIN paperwork_templates |->
               IF paperwork_templates[k].id = req[p].target
               THEN [paperwork_templates[k] EXCEPT
                        !.is_favorite = req[p].new_favorite_status]
               ELSE paperwork_templates[k]]
    /\ req' = [req EXCEPT ![p].pc = "done", ![p].status = 200]
    /\ UNCHANGED << users, habits, token_transactions, nreq, day, medical_records, ai >>

ApiNext ==
    \/ \E u \in UserIds : create_user(u)
    \/ \E p \in Procs, u \in RequestIds : ApiLogHabit(p, u)
    \/ \E p \in Procs : LogHabitFind(p)
    \/ \E p \in Procs : LogHabitInsert(p)
    \/ \E p \in Procs : LogHabitUpdate(p)
    \/ \E p \in Procs, u \in RequestIds : CreateMedicalRecordStart(p, u)
    \/ \E p \in Procs, u \in RequestIds, too_large \in BOOLEAN :
          UploadMedicalRecordStart(p, u, too_large)
    \/ \E p \in Procs, llm \in RecordLlmOutcomes : MedicalRecordAnalyze(p, llm)
    \/ \E p \in Procs : MedicalRecordInsert(p)
    \/ \E p \in Procs, id \in DocIds : delete_medical_record(p, id)
    \/ \E p \in Procs, u \in RequestIds : PaperworkStart(p, u)
    \/ \E p \in Procs : PaperworkFind(p)
    \/ \E p \in Procs, llm \in PaperworkLlmOutcomes : PaperworkGenerate(p, llm)
    \/ \E p \in Procs : PaperworkInsert(p)
    \/ \E p \in Procs, id \in DocIds : ToggleFavoriteStart(p, id)
    \/ \E p \in Procs : ToggleFavoriteFind(p)
    \/ \E p \in Procs : ToggleFavoriteUpdate(p)
    \/ \E p \in Procs : AwardInc(p)
    \/ \E p \in Procs : AwardInsert(p)

ApiSpec == Init /\ [][ApiNext]_vars

\* ------------------------------------------------------ read specification
\* GET /tokens and GET /dashboard over the store left by n POST /paperwork
\* requests of u1 that ran one after another with the LLM down.

\* to_list(100) of get_user_tokens.
HistoryLimit == 100
\* Ledgers up to one entry more than the history holds.
MaxLedger == HistoryLimit + 1

PaperworkAward == 25

ReadInit ==
    \E n \in 0..MaxLedger :
        /\ users = [u \in {"u1"} |-> [NewUser EXCEPT !.tokens = n * PaperworkAward]]
        /\ token_transactions =
               [i \in 1..n |-> [id |-> i, user_id |-> "u1", amount |-> PaperworkAward,
                                transaction_type |-> "earned",
                                description |-> << "Smart paperwork" >>]]
        /\ paperwork_templates =
               [i \in 1..n |-> [id |-> i, user_id |-> "u1",
                                content |-> PyStr("MEDICAL FORM"), is_favorite |-> FALSE]]
        /\ habits = << >>
        /\ medical_records = << >>
        /\ req = [p \in Procs |-> Idle]
        /\ nreq = n
        /\ day = 0
        /\ ai = NoCall

\* find({"user_id": u}) in insertion order, which is the order of timestamps.
EntriesBy(u) == SelectSeq(token_transactions, LAMBDA e : e.user_id = u)

\* sort("timestamp", -1).to_list(k): the k latest.
Latest(seq, k) == SubSeq(seq, Max(1, Len(seq) - k + 1), Len(seq))

\* sum(t.get('amount', 0) for t in transactions if t.get('transaction_type') == kind)
RECURSIVE SumOfType(_, _, _)
SumOfType(seq, kind, n) ==
    IF n = 0 THEN 0
    ELSE (IF seq[n].transaction_type = kind THEN seq[n].amount ELSE 0)
         + SumOfType(seq, kind, n - 1)

\* A GET request arrives; it creates no document and takes no id.
ReadStart(p, u, op, pc) ==
    /\ Free(p)
    /\ req' = [req EXCEPT ![p] = [Idle EXCEPT !.pc = pc, !.op = op, !.user_id = u]]
    /\ UNCHANGED << users, habits, token_transactions, nreq, day >>
    /\ UNCHANGED others

\* GET /tokens/{user_id} arrives.
GetUserTokensStart(p, u) ==
    /\ u \in RequestIds
    /\ ReadStart(p, u, "get_user_tokens", "gt_find")

\* Lines 621-623: find_one of the user, 404 without it.
GetUserTokensFind(p) ==
    /\ req[p].pc = "gt_find"
    /\ IF req[p].user_id \in DOMAIN users
       THEN req' = [req EXCEPT ![p].pc = "gt_list",
                               ![p].current_tokens = users[req[p].user_id].tokens]
       ELSE req' = [req EXCEPT ![p].pc = "done", ![p].status = 404]
    /\ UNCHANGED << users, habits, token_transactions, nreq, day >>
    /\ UNCHANGED others

\* Lines 625-636: the latest 100 transactions and the sums over them.
GetUserTokensList(p) ==
    /\ req[p].pc = "gt_list"
    /\ LET transactions == Latest(EntriesBy(req[p].user_id), HistoryLimit)
       IN  req' = [req EXCEPT ![p].pc = "done", ![p].status = 200,
                       ![p].total_earned =
                           SumOfType(transactions, "earned", Len(transactions)),
                       ![p].total_spent =
                           SumOfType(transactions, "spent", Len(transactions))]
    /\ UNCHANGED << users, habits, token_transactions, nreq, day >>
    /\ UNCHANGED others

\* GET /dashboard/{user_id} arrives.
GetDashboardStart(p, u) ==
    /\ u \in RequestIds
    /\ ReadStart(p, u, "get_dashboard_data", "gd_find")

\* Lines 642-644: find_one of the user, 404 without it.
GetDashboardFind(p) ==
    /\ req[p].pc = "gd_find"
    /\ IF req[p].user_id \in DOMAIN users
       THEN req' = [req EXCEPT ![p].pc = "gd_recent",
                               ![p].current_tokens = users[req[p].user_id].tokens]
       ELSE req' = [req EXCEPT ![p].pc = "done", ![p].status = 404]
    /\ UNCHANGED << users, habits, token_transactions, nreq, day >>
    /\ UNCHANGED others

\* Lines 646-653: the recent records, habits and goals; the streak is the
\* number of habits fetched, 7 at most.
GetDashboardRecent(p) ==
    /\ req[p].pc = "gd_recent"
    /\ req' = [req EXCEPT ![p].pc = "gd_total",
                          ![p].habit_streak =
                              Min(7, Cardinality({i \in DOMAIN habits :
                                                     habits[i].user_id = req[p].user_id}))]
    /\ UNCHANGED << users, habits, token_transactions, nreq, day >>
    /\ UNCHANGED others

\* Lines 655-672: the $sum of all earned amounts of the user, 0 without any.
GetDashboardTotal(p) ==
    /\ req[p].pc = "gd_total"
    /\ LET earned == EntriesBy(req[p].user_id)
       IN  req' = [req EXCEPT ![p].pc = "done", ![p].status = 200,
                       ![p].tokens_earned_total = SumOfType(earned, "earned", Len(earned))]
    /\ UNCHANGED << users, habits, token_transactions, nreq, day >>
    /\ UNCHANGED others

ReadNext ==
    \/ \E p \in Procs, u \in RequestIds : GetUserTokensStart(p, u)
    \/ \E p \in Procs : GetUserTokensFind(p)
    \/ \E p \in Procs : GetUserTokensList(p)
    \/ \E p \in Procs, u \in RequestIds : GetDashboardStart(p, u)
    \/ \E p \in Procs : GetDashboardFind(p)
    \/ \E p \in Procs : GetDashboardRecent(p)
    \/ \E p \in Procs : GetDashboardTotal(p)

ReadSpec == ReadInit /\ [][ReadNext]_vars

\* ---------------------------------------------------- stored specification
\* DELETE of a record and the favourite toggle over the store left by two
\* POST /medical-records (the LLM down, then answering plain text) and one
\* POST /paperwork of u1; their ids lie beyond those of the requests to come.
StoredRecord1 == MaxApiRequests + 1
StoredRecord2 == MaxApiRequests + 2
StoredTemplate == MaxApiRequests + 3
StoredIds == {StoredRecord1, StoredRecord2, StoredTemplate}

StoredInit ==
    /\ users = [u \in {"u1"} |-> [NewUser EXCEPT !.tokens = 50 + 50 + PaperworkAward]]
    /\ medical_records =
           << MedicalRecordOf(StoredRecord1, "u1", analyze_medical_record(LlmError)),
              MedicalRecordOf(StoredRecord2, "u1", analyze_medical_record(LlmText(TxtRest))) >>
    /\ paperwork_templates =
           << [id |-> StoredTemplate, user_id |-> "u1", content |-> PyStr("MEDICAL FORM"),
               is_favorite |-> FALSE] >>
    /\ token_transactions =
           << [id |-> StoredRecord1, user_id |-> "u1", amount |-> 50,
               transaction_type |-> "earned", description |-> << "Medical record" >>],
              [id |-> StoredRecord2, user_id |-> "u1", amount |-> 50,
               transaction_type |-> "earned", description |-> << "Medical record" >>],
              [id |-> StoredTemplate, user_id |-> "u1", amount |-> PaperworkAward,
               transaction_type |-> "earned", description |-> << "Smart paperwork" >>] >>
    /\ habits = << >>
    /\ req = [p \in Procs |-> Idle]
    /\ nreq = 0
    /\ day = 0
    /\ ai = NoCall

StoredNext ==
    \/ \E p \in Procs, id \in DocIds \cup StoredIds : delete_medical_record(p, id)
    \/ \E p \in Procs, id \in DocIds \cup StoredIds : ToggleFavoriteStart(p, id)
    \/ \E p \in Procs : ToggleFavoriteFind(p)
    \/ \E p \in Procs : ToggleFavoriteUpdate(p)

StoredSpec == StoredInit /\ [][StoredNext]_vars
\* ======================================================================
\* Properties
\* ======================================================================

\* p has passed the duplicate check: reward and score are computed.
Computed(p) ==
    /\ req[p].op = "log_habit"
    /\ \/ req[p].pc \in {"lh_insert", "lh_update", "aw_inc", "aw_insert"}
       \/ req[p].pc = "done" /\ req[p].status = 200

\* p takes a step of the request it is running.
StepOf(p) == req'[p] # req[p] /\ req'[p].rid = req[p].rid

HabitsOf(rid) == {i \in DOMAIN habits : habits[i].id = rid}
EntriesOf(rid) == {i \in DOMAIN token_transactions : token_transactions[i].id = rid}

RECURSIVE LedgerSum(_, _)
LedgerSum(u, n) ==
    IF n = 0 THEN 0
    ELSE (IF token_transactions[n].user_id = u THEN token_transactions[n].amount ELSE 0)
         + LedgerSum(u, n - 1)

\* C1: the habits collection never holds two records with the same
\* (user_id, date), also when POST /habits requests interleave.
C1_OneHabitPerUserDate ==
    \A i, j \in DOMAIN habits :
        (habits[i].user_id = habits[j].user_id /\ habits[i].date = habits[j].date) => i = j

\* C2: at its duplicate check, a POST /habits whose user already has a record
\* dated today is rejected with 400 and inserts nothing; one whose user has no
\* record dated today (records of earlier days or of other users do not count)
\* goes on to insert, and a request that answered 200 has left its own record
\* for (user, today) in the collection.
C2_DuplicateRejectedNextDayAccepted ==
    /\ [][\A p \in Procs :
            (req[p].pc = "lh_find" /\ StepOf(p)) =>
                IF \E i \in DOMAIN habits : /\ habits[i].user_id = req[p].user_id
                                            /\ habits[i].date = req[p].today
                THEN req'[p].pc = "done" /\ req'[p].status = 400 /\ habits' = habits
                ELSE req'[p].pc = "lh_insert" /\ req'[p].status # 400]_vars
    /\ [](\A p \in Procs :
            (req[p].op = "log_habit" /\ req[p].pc = "done") =>
                \/ /\ req[p].status = 200
                   /\ \E i \in HabitsOf(req[p].rid) : /\ habits[i].user_id = req[p].user_id
                                                      /\ habits[i].date = req[p].today
                \/ req[p].status = 400 /\ HabitsOf(req[p].rid) = {})

\* C2 witness: a user holds records of two consecutive days and a further
\* request of that user has been rejected with 400.
C2_Witness ==
    \E p \in Procs :
        /\ req[p].op = "log_habit" /\ req[p].pc = "done" /\ req[p].status = 400
        /\ \E i, j \in DOMAIN habits :
              /\ habits[i].user_id = req[p].user_id
              /\ habits[j].user_id = req[p].user_id
              /\ habits[j].date = habits[i].date + 1

\* C3: every existing user's balance equals the sum of that user's ledger
\* amounts, in every reachable state.
C3_BalanceEqualsLedgerSum ==
    \A u \in DOMAIN users : users[u].tokens = LedgerSum(u, Len(token_transactions))

\* The reward as the eight rules state it: a rule counts when its metric is
\* supplied (not None) and meets the threshold.
Supplied(x) == x # None
RuleReward(h) ==
      (IF Supplied(h["sleep_hours"]) /\ Val(h["sleep_hours"]) >= 7 * SleepUnit THEN 20 ELSE 0)
    + (IF Supplied(h["exercise_minutes"]) /\ Val(h["exercise_minutes"]) >= 30 THEN 30 ELSE 0)
    + (IF Supplied(h["steps_count"]) /\ Val(h["steps_count"]) >= 8000 THEN 25 ELSE 0)
    + (IF Supplied(h["water_glasses"]) /\ Val(h["water_glasses"]) >= 8 THEN 15 ELSE 0)
    + (IF Supplied(h["fruits_vegetables"]) /\ Val(h["fruits_vegetables"]) >= 3 THEN 20 ELSE 0)
    + (IF Supplied(h["mood_rating"]) /\ Val(h["mood_rating"]) >= 4 THEN 10 ELSE 0)
    + (IF Supplied(h["meditation_minutes"]) /\ Val(h["meditation_minutes"]) >= 10 THEN 15 ELSE 0)
    + (IF Supplied(h["stress_level"]) /\ Val(h["stress_level"]) <= 2 THEN 10 ELSE 0)

\* C4: the reward log_habit computes is the sum of the bonuses of the rules
\* whose metric is supplied and meets its threshold (inclusive).
C4_RewardIsSumOfSatisfiedRules ==
    \A p \in Procs : Computed(p) => req[p].tokens_earned = RuleReward(req[p].habit_data)

\* C5: the computed score, and the health_score_impact of every stored habit
\* record, lies in [0, 100].
C5_ScoreInRange ==
    /\ \A p \in Procs : Computed(p) =>
          /\ req[p].health_score_impact >= 0
          /\ req[p].health_score_impact <= 100 * ScoreScale
    /\ \A i \in DOMAIN habits :
          /\ habits[i].health_score_impact >= 0
          /\ habits[i].health_score_impact <= 100 * ScoreScale

\* C6: the score is the sum of the contributions of the scored metrics that
\* are not None, divided by their number (a metric supplied as 0 counts).
NotNone(h) == {m \in ScoredMetrics : Supplied(h[m])}
C6_AverageOverNotNone ==
    \A p \in Procs : Computed(p) =>
        LET h == req[p].habit_data
            n == Cardinality(NotNone(h))
        IN  req[p].health_score_impact * n = SumScores(h, NotNone(h)) * FactorLcm

\* Per-metric caps of calculate_health_score (the "N points max" comments).
Cap(m) ==
    CASE m = "sleep_hours" -> 20 [] m = "exercise_minutes" -> 25
      [] m = "steps_count" -> 15 [] m = "water_glasses" -> 10
      [] m = "fruits_vegetables" -> 15 [] m = "mood_rating" -> 15
      [] m = "stress_level" -> 15

\* A value at which the metric's contribution reaches its cap.
AtOptimum(m, v) ==
    CASE m = "sleep_hours" -> v = 9 * SleepUnit [] m = "exercise_minutes" -> v = 50
      [] m = "steps_count" -> v >= 10005 [] m = "water_glasses" -> v = 8
      [] m = "fruits_vegetables" -> v = 5 [] m = "mood_rating" -> v = 5
      [] m = "stress_level" -> v = 1

\* The request supplies exactly one scored metric, m, at its optimum.
OnlyOptimal(p, m) ==
    /\ Computed(p)
    /\ NotNone(req[p].habit_data) = {m}
    /\ AtOptimum(m, Val(req[p].habit_data[m]))

\* C7 as stated: one scored metric at its optimal value gives the score 100.
C7_SingleOptimalIsHundred ==
    \A p \in Procs : \A m \in ScoredMetrics :
        OnlyOptimal(p, m) => req[p].health_score_impact = 100 * ScoreScale

\* C7 amended: one scored metric at its optimal value gives that metric's
\* cap as the score (sleep 20, exercise 25, ...): its full contribution,
\* not shared out over the absent metrics.
C7_SingleOptimalIsCap ==
    \A p \in Procs : \A m \in ScoredMetrics :
        OnlyOptimal(p, m) => req[p].health_score_impact = Cap(m) * ScoreScale

\* C7 witness: a stored record whose only scored metric is sleep_hours = 9.
C7_Witness ==
    /\ OnlyOptimal("p1", "sleep_hours")
    /\ \E i \in HabitsOf(req["p1"].rid) : habits[i].health_score_impact = 20 * ScoreScale

\* C8: every contribution added inside calculate_health_score lies between
\* 0 and the metric's cap.
C8_ContributionWithinCap ==
    \A p \in Procs : Computed(p) =>
        \A m \in Counted(req[p].habit_data) :
            LET c == MetricScore(m, Val(req[p].habit_data[m]))
            IN  c >= 0 /\ c <= Cap(m) * Pt

\* C9: a log with no metric gets reward 0 and score 0, is stored with
\* tokens_earned = 0 and health_score_impact = 0, never enters award_tokens,
\* creates no ledger entry, and none of its steps changes a balance or the ledger.
C9_NoMetricsNoReward ==
    /\ [](\A p \in Procs :
            (Computed(p) /\ NotNone(req[p].habit_data) = {}
                         /\ req[p].habit_data["meditation_minutes"] = None) =>
                /\ req[p].tokens_earned = 0
                /\ req[p].health_score_impact = 0
                /\ req[p].pc \in {"lh_insert", "lh_update", "done"}
                /\ EntriesOf(req[p].rid) = {}
                /\ req[p].pc # "lh_insert" =>
                      /\ HabitsOf(req[p].rid) # {}
                      /\ \A i \in HabitsOf(req[p].rid) :
                            habits[i].tokens_earned = 0 /\ habits[i].health_score_impact = 0)
    /\ [][\A p \in Procs :
            (req[p].op = "log_habit" /\ req[p].habit_data = NoMetrics /\ StepOf(p)) =>
                /\ token_transactions' = token_transactions
                /\ \A u \in DOMAIN users : users'[u].tokens = users[u].tokens]_vars

\* C9 witness: an existing user with a positive balance has completed a log
\* without metrics, and its record is stored.
C9_Witness ==
    \E p \in Procs :
        /\ Computed(p) /\ req[p].pc = "done" /\ req[p].habit_data = NoMetrics
        /\ req[p].user_id \in DOMAIN users
        /\ users[req[p].user_id].tokens > 0
        /\ HabitsOf(req[p].rid) # {}

\* C10: a successful POST /habits of an existing user stores (and returns)
\* one record carrying the computed reward and score - 75 and 121/8 = 15.125
\* for the log of test_log_habits; with a positive reward its $inc step adds
\* exactly tokens_earned to the balance, no other step of it touches the
\* balance, and exactly one ledger entry of that amount is appended.
C10_LogHabitResult ==
    /\ [](\A p \in Procs :
            (Computed(p) /\ req[p].user_id \in DOMAIN users) =>
                /\ req[p].habit_data = TestHabit =>
                      /\ req[p].tokens_earned = 75
                      /\ req[p].health_score_impact * 8 = 121 * ScoreScale
                /\ req[p].pc = "done" =>
                      /\ Cardinality(HabitsOf(req[p].rid)) = 1
                      /\ \A i \in HabitsOf(req[p].rid) :
                            /\ habits[i].tokens_earned = req[p].tokens_earned
                            /\ habits[i].health_score_impact = req[p].health_score_impact
                      /\ Cardinality(EntriesOf(req[p].rid))
                            = IF req[p].tokens_earned > 0 THEN 1 ELSE 0
                      /\ \A i \in EntriesOf(req[p].rid) :
                            /\ token_transactions[i].amount = req[p].tokens_earned
                            /\ token_transactions[i].user_id = req[p].user_id)
    /\ [][\A p \in Procs :
            (req[p].op = "log_habit" /\ req[p].user_id \in DOMAIN users /\ StepOf(p)) =>
                LET u == req[p].user_id
                IN  /\ users'[u].tokens = users[u].tokens
                          + (IF req[p].pc = "aw_inc" THEN req[p].tokens_earned ELSE 0)
                    /\ Len(token_transactions') = Len(token_transactions)
                          + (IF req[p].pc = "aw_insert" THEN 1 ELSE 0)]_vars

\* C10 witness: the log of test_log_habits has completed for an existing
\* user whose balance now holds its 75 tokens, with its ledger entry.
C10_Witness ==
    \E p \in Procs :
        /\ Computed(p) /\ req[p].pc = "done" /\ req[p].habit_data = TestHabit
        /\ req[p].user_id \in DOMAIN users
        /\ users[req[p].user_id].tokens >= 75
        /\ EntriesOf(req[p].rid) # {}
\* C11: once a habit log of an existing user has passed its $set, the user's
\* health_score is the log's score clamped to [0, 100], whatever the value
\* before (85 at first, kept until then); so health_score is always in [0, 100].
C11_HealthScoreIsClampedScore ==
    /\ \A u \in DOMAIN users :
          users[u].health_score >= 0 /\ users[u].health_score <= 100 * ScoreScale
    /\ \A p \in Procs :
          (req[p].op = "log_habit" /\ req[p].user_id \in DOMAIN users) =>
              LET s == req[p].health_score_impact
                  stored == users[req[p].user_id].health_score
              IN  IF req[p].pc \in {"aw_inc", "aw_insert"}
                     \/ (req[p].pc = "done" /\ req[p].status = 200)
                  THEN stored = (IF s < 0 THEN 0
                                 ELSE IF s > 100 * ScoreScale THEN 100 * ScoreScale ELSE s)
                  ELSE stored = 85 * ScoreScale

\* C11 witness: a log whose score is above 100 has completed and the user's
\* health_score is 100.
C11_Witness ==
    /\ req["p1"].pc = "done" /\ req["p1"].status = 200
    /\ req["p1"].health_score_impact > 100 * ScoreScale
    /\ users["u1"].health_score = 100 * ScoreScale

\* The keywords of a tier found in the text _analyze_urgency checks.
Hits(keywords) ==
    {k \in keywords : Contains(k, LowerStr(ai.message \o <<" ">> \o ai.llm.text))}

\* C18: _analyze_urgency returns 'emergency' whenever the lowercased message
\* plus response contains an emergency keyword, whatever else it contains,
\* 'high' when it contains no emergency keyword but a high-severity one, and
\* 'medium' otherwise, however many keywords match.
C18_UrgencyTiers ==
    ai.fn = "_analyze_urgency" =>
        /\ (Hits(emergency_keywords) # {}) <=> (ai.result = PyStr("emergency"))
        /\ (Hits(emergency_keywords) = {} /\ Hits(high_keywords) # {})
               <=> (ai.result = PyStr("high"))
        /\ (Hits(emergency_keywords) = {} /\ Hits(high_keywords) = {})
               <=> (ai.result = PyStr("medium"))

\* A text holding keywords of both tiers, in capitals, is an emergency.
C18_Witness ==
    /\ ai.fn = "_analyze_urgency"
    /\ ai.message = MsgChestPain
    /\ Hits(emergency_keywords) # {}
    /\ Cardinality(Hits(high_keywords)) >= 2
    /\ ai.result = PyStr("emergency")

\* The three analyses that decode the LLM text as JSON.
Analyses == {"analyze_medical_record", "analyze_health_trends",
             "check_medication_interactions"}

\* What analysis fn returns for a user score and an LLM outcome.
ResultOf(fn, score, llm) ==
    CASE fn = "analyze_medical_record" -> analyze_medical_record(llm)
      [] fn = "analyze_health_trends" -> analyze_health_trends(score, llm)
      [] fn = "check_medication_interactions" -> check_medication_interactions(llm)

\* The call in ai is an analysis whose LLM call returned a text.
AnalysisReturned == ai.fn \in Analyses /\ ~ai.llm.raised

SummaryOf(text) ==
    IF Len(text) <= SummaryLimit THEN text
    ELSE [i \in 1..(SummaryLimit + 3) |-> IF i <= SummaryLimit THEN text[i] ELSE "."]

Malformed == ~ai.llm.raised /\ JsonLoads(ai.llm.text) = JSONDecodeError
Failed == ai.llm.raised \/ Malformed

ExpectedFields(fn) ==
    CASE fn = "analyze_medical_record" ->
            {"summary", "risk_assessment", "health_metrics", "recommendations",
             "priority_level"}
      [] fn = "get_health_consultation" ->
            {"response", "urgency_level", "recommendations", "follow_up_suggested"}
      [] fn = "analyze_health_trends" ->
            {"overall_health_score", "risk_predictions", "trend_analysis",
             "recommendations", "predicted_outcomes"}
      [] fn = "check_medication_interactions" ->
            {"interaction_level", "interactions", "warnings", "recommendations",
             "safe_to_take"}
      [] fn = "analyze_for_emergencies" ->
            {"emergency_detected", "severity", "type", "indicators",
             "recommended_action", "message"}

Producers == {"analyze_medical_record", "get_health_consultation",
              "analyze_health_trends", "check_medication_interactions",
              "analyze_for_emergencies"}

\* The result of the call in ai is a dict with every field of its shape.
Complete == PyType(ai.result) = "dict" /\ Keys(ai.result) = ExpectedFields(ai.fn)

Kept(before, after) ==
    \A i \in DOMAIN before : i \in DOMAIN after /\ after[i] = before[i]

\* C12: once created, a habit record and a ledger entry are never modified or
\* removed: whatever the operation, each one present before the step is
\* present after it with identical fields.
C12_HabitsAndLedgerAppendOnly ==
    [][Kept(habits, habits') /\ Kept(token_transactions, token_transactions')]_vars

\* A habit record and its ledger entry, after a second request has stored a
\* medical record and appended its own entry.
C12_Witness ==
    /\ Len(habits) = 1 /\ habits[1].tokens_earned = 75
    /\ Len(token_transactions) = 2 /\ token_transactions[1].amount = 75
    /\ token_transactions[2].amount = 50
    /\ Len(medical_records) = 1

\* The handler slot that is about to insert the record of id n.
Inserting(p, n) == req[p].pc = "mr_insert" /\ req[p].rid = n

\* C13: a medical record's ai_summary, risk_assessment and health_metrics are
\* set when the record is created, from the analysis the creating request got,
\* and no step changes them while a record of that id exists.
C13_AnalysisFieldsSetOnce ==
    [][ /\ \A i \in DOMAIN medical_records : \A j \in DOMAIN medical_records' :
              medical_records'[j].id = medical_records[i].id =>
                  medical_records'[j] = medical_records[i]
        /\ Len(medical_records') > Len(medical_records) =>
              LET created == medical_records'[Len(medical_records')]
              IN  \E p \in Procs :
                     /\ Inserting(p, created.id)
                     /\ created.ai_summary =
                            DictGet(req[p].analysis, "summary", PyStr(""))
                     /\ created.risk_assessment =
                            DictGet(req[p].analysis, "risk_assessment", PyStr(""))
                     /\ created.health_metrics =
                            DictGet(req[p].analysis, "health_metrics", EmptyDict)
      ]_vars

\* A record carrying the LLM's plain text as its summary, with a template
\* stored by a later request.
C13_Witness ==
    /\ Len(medical_records) = 1
    /\ medical_records[1].ai_summary = PyText(TxtRest)
    /\ medical_records[1].health_metrics = PyDict(<< << "status", PyStr("extracted") >> >>)
    /\ Len(paperwork_templates) = 1
    /\ \A p \in Procs : req[p].pc = "done"

\* The requests that store a medical record.
RecordOps == {"create_medical_record", "upload_medical_record"}

\* C16: whatever the LLM call does, POST /medical-records and
\* POST /upload-medical-record go on from the analysis to the insert, store
\* the record and answer with success.
C16_EveryLlmOutcomePersists ==
    /\ [](\A p \in Procs :
            (req[p].op \in RecordOps /\ req[p].llm_calls > 0 /\ req[p].pc = "done")
                => req[p].status = 200)
    /\ [][\A p \in Procs :
            /\ (req[p].pc = "mr_llm" /\ req'[p].pc # "mr_llm")
                  => req'[p].pc = "mr_insert"
            /\ (req[p].pc = "mr_insert" /\ req'[p].pc # "mr_insert")
                  => \E i \in DOMAIN medical_records' :
                        medical_records'[i].id = req[p].rid]_vars

\* The requests that name a user and change state.
UserOps == {"log_habit", "create_medical_record", "upload_medical_record",
            "generate_smart_paperwork"}

\* p ended with a server error: an upload refused for its size or a record
\* that could not be built, whoever the user is.
ServerError(p) == req[p].pc = "done" /\ req[p].status = 500

\* C19: a state-changing request naming a user id that does not exist is
\* answered with a client error (unless it ended with a server error) and
\* leaves every collection as it was: no document of any collection carries
\* that id.
C19_UnknownUserRejected ==
    /\ \A p \in Procs :
          (req[p].op \in UserOps /\ req[p].user_id = GhostId /\ req[p].pc = "done"
           /\ ~ServerError(p))
              => (req[p].status >= 400 /\ req[p].status < 500)
    /\ \A i \in DOMAIN habits : habits[i].user_id # GhostId
    /\ \A i \in DOMAIN medical_records : medical_records[i].user_id # GhostId
    /\ \A i \in DOMAIN paperwork_templates : paperwork_templates[i].user_id # GhostId
    /\ \A i \in DOMAIN token_transactions : token_transactions[i].user_id # GhostId
    /\ GhostId \notin DOMAIN users

\* The steps at which a handler awaits chat.send_message.
LlmSteps == {"mr_llm", "pw_llm"}

\* C20: a request makes at most one LLM call; when the call raised or its
\* text is malformed the request does not call again but goes on with the
\* fallback.
C20_AtMostOneLlmCall ==
    /\ [](\A p \in Procs : req[p].llm_calls <= 1)
    /\ [][\A p \in Procs :
            (req[p].pc \in LlmSteps /\ req'[p].llm_calls > req[p].llm_calls) =>
                /\ req'[p].pc \notin LlmSteps
                /\ req'[p].llm_calls = 1
                /\ (req[p].pc = "mr_llm" /\ req'[p].llm.raised)
                      => (req'[p].analysis = RecordErrorFallback
                          /\ req'[p].pc = "mr_insert")
                /\ (req[p].pc = "mr_llm" /\ ~req'[p].llm.raised
                    /\ JsonLoads(req'[p].llm.text) = JSONDecodeError)
                      => (req'[p].analysis = RecordTextFallback(CutSummary(req'[p].llm.text))
                          /\ req'[p].pc = "mr_insert")
                /\ (req[p].pc = "pw_llm" /\ req'[p].llm.raised)
                      => (req'[p].content = PyStr("MEDICAL FORM")
                          /\ req'[p].pc = "pw_insert")]_vars

\* A record request whose one LLM call raised, answered from the fallback.
C20_Witness ==
    /\ req["p1"].op = "create_medical_record"
    /\ req["p1"].pc = "done" /\ req["p1"].status = 200
    /\ req["p1"].llm_calls = 1 /\ req["p1"].llm.raised
    /\ Len(medical_records) = 1
    /\ medical_records[1].health_metrics = PyDict(<< << "status", PyStr("pending") >> >>)

\* C21: a POST /habits rejected as a same-day duplicate changes nothing:
\* neither its arrival nor its rejection touches the habits, the users'
\* balances and health scores or the ledger, and it leaves no document behind.
C21_RejectedDuplicateChangesNothing ==
    /\ [][\A p \in Procs :
            (req'[p].rid # req[p].rid /\ req'[p].op = "log_habit")
                => UNCHANGED << users, habits, token_transactions >>]_vars
    /\ [][\A p \in Procs :
            (StepOf(p) /\ req'[p].op = "log_habit" /\ req'[p].status = 400)
                => (req[p].pc = "lh_find"
                    /\ UNCHANGED << users, habits, token_transactions >>)]_vars
    /\ [](\A p \in Procs :
            (req[p].op = "log_habit" /\ req[p].status = 400)
                => (HabitsOf(req[p].rid) = {} /\ EntriesOf(req[p].rid) = {}))

\* A duplicate has been rejected while the first log of the day, its reward
\* and its ledger entry stand.
C21_Witness ==
    \E p \in Procs :
        /\ req[p].op = "log_habit" /\ req[p].pc = "done" /\ req[p].status = 400
        /\ req[p].habit_data = TestHabit
        /\ req[p].user_id \in DOMAIN users
        /\ Len(habits) = 1 /\ Len(token_transactions) = 1
        /\ users[req[p].user_id].tokens = 75

\* C22: however the steps of concurrent awards to an existing user interleave,
\* no increment is lost: whenever no award stands between its $inc and its
\* insert, the user's balance is the sum of the awarded amounts, and every
\* completed award has exactly one ledger entry, of its amount.
C22_NoIncrementLost ==
    /\ (\A p \in Procs : req[p].pc # "aw_insert") =>
           \A u \in DOMAIN users :
               users[u].tokens = LedgerSum(u, Len(token_transactions))
    /\ \A i, j \in DOMAIN token_transactions :
           token_transactions[i].id = token_transactions[j].id => i = j
    /\ \A p \in Procs :
           /\ (req[p].pc = "done" /\ req[p].status = 200 /\ req[p].amount > 0) =>
                  /\ Cardinality(EntriesOf(req[p].rid)) = 1
                  /\ \A i \in EntriesOf(req[p].rid) :
                        /\ token_transactions[i].amount = req[p].amount
                        /\ token_transactions[i].user_id = req[p].user_id
           /\ req[p].pc = "aw_inc" => EntriesOf(req[p].rid) = {}

\* A record award and a paperwork award of the same user, both completed.
C22_Witness ==
    /\ req["p1"].pc = "done" /\ req["p1"].amount = 50 /\ req["p1"].user_id = "u1"
    /\ req["p2"].pc = "done" /\ req["p2"].amount = 25 /\ req["p2"].user_id = "u1"
    /\ "u1" \in DOMAIN users /\ users["u1"].tokens = 75
    /\ Len(token_transactions) = 2

\* C23: for an existing user with no request in flight, GET /tokens answers
\* total_earned equal to current_tokens whatever the length of the ledger,
\* and GET /dashboard answers tokens_earned_total equal to the same balance.
C23_TotalEarnedIsBalance ==
    \A p \in Procs :
        (req[p].pc = "done" /\ req[p].status = 200) =>
            /\ req[p].op = "get_user_tokens" =>
                  (req[p].current_tokens = users[req[p].user_id].tokens
                   /\ req[p].total_earned = req[p].current_tokens)
            /\ req[p].op = "get_dashboard_data" =>
                  req[p].tokens_earned_total = users[req[p].user_id].tokens

\* What the endpoint of a request awards.
AwardOf(op) == IF op \in RecordOps THEN 50 ELSE 25

AwardingOps == RecordOps \cup {"generate_smart_paperwork"}

\* C24: a request that stores a medical record awards its user exactly 50
\* tokens and a successful POST /paperwork exactly 25, with exactly one ledger
\* entry of that amount, whatever the LLM call did.
C24_RecordAwards50PaperworkAwards25 ==
    /\ [](\A p \in Procs :
            (req[p].op \in AwardingOps /\ req[p].pc = "done") =>
                IF req[p].status = 200
                THEN /\ Cardinality(EntriesOf(req[p].rid)) = 1
                     /\ \A i \in EntriesOf(req[p].rid) :
                           /\ token_transactions[i].amount = AwardOf(req[p].op)
                           /\ token_transactions[i].user_id = req[p].user_id
                ELSE EntriesOf(req[p].rid) = {})
    /\ [][\A p \in Procs :
            /\ (req[p].op \in RecordOps /\ req[p].pc = "mr_insert" /\ StepOf(p))
                  => req'[p].pc = "aw_inc"
            /\ (req[p].op = "generate_smart_paperwork" /\ req[p].pc = "pw_insert"
                /\ StepOf(p))
                  => req'[p].pc = "aw_inc"
            /\ (req[p].op \in AwardingOps /\ req[p].pc = "aw_inc" /\ StepOf(p)
                /\ req[p].user_id \in DOMAIN users)
                  => /\ users'[req[p].user_id].tokens =
                            users[req[p].user_id].tokens + AwardOf(req[p].op)
                     /\ req'[p].pc = "aw_insert"
            /\ (req[p].op \in AwardingOps /\ req[p].pc # "aw_inc" /\ StepOf(p)
                /\ req[p].user_id \in DOMAIN users)
                  => users'[req[p].user_id].tokens = users[req[p].user_id].tokens]_vars

\* A record stored from malformed LLM text and a form generated with the LLM
\* down, both rewarded.
C24_Witness ==
    \E p, q \in Procs :
        /\ req[p].op = "create_medical_record" /\ req[p].pc = "done"
        /\ req[p].status = 200 /\ ~req[p].llm.raised
        /\ JsonLoads(req[p].llm.text) = JSONDecodeError
        /\ req[q].op = "generate_smart_paperwork" /\ req[q].pc = "done"
        /\ req[q].status = 200 /\ req[q].llm.raised
        /\ req[p].user_id = "u1" /\ req[q].user_id = "u1"
        /\ "u1" \in DOMAIN users /\ users["u1"].tokens = 75

\* The upload of p was refused for its size: it ended before any LLM call.
Oversize(p) ==
    req[p].op = "upload_medical_record" /\ req[p].pc = "done" /\ req[p].llm_calls = 0

\* C25: an upload larger than 10 MB is rejected with status 400 and creates
\* no medical record and no ledger entry.
C25_OversizeUploadRejectedWith400 ==
    \A p \in Procs :
        Oversize(p) =>
            /\ req[p].status = 400
            /\ \A i \in DOMAIN medical_records : medical_records[i].id # req[p].rid
            /\ EntriesOf(req[p].rid) = {}

\* C26: DELETE /medical-records/{id} removes the record of that id and no
\* other, and leaves balances, ledger, habits and templates as they were; for
\* an id matching no record it answers 404 and changes nothing.
C26_DeleteRemovesOnlyTheRecord ==
    [][\A p \in Procs :
          (req'[p].rid # req[p].rid /\ req'[p].op = "delete_medical_record") =>
              /\ UNCHANGED << users, token_transactions, habits, paperwork_templates >>
              /\ IF \E k \in DOMAIN medical_records :
                        medical_records[k].id = req'[p].target
                 THEN /\ req'[p].status = 200
                      /\ Len(medical_records') = Len(medical_records) - 1
                      /\ medical_records' =
                            SelectSeq(medical_records,
                                      LAMBDA m : m.id # req'[p].target)
                 ELSE /\ req'[p].status = 404
                      /\ medical_records' = medical_records]_vars

\* The first of two records has been deleted: the second one, the tokens of
\* both and the three ledger entries remain.
C26_Witness ==
    \E p \in Procs :
        /\ req[p].op = "delete_medical_record" /\ req[p].status = 200
        /\ req[p].target = StoredRecord1
        /\ Len(medical_records) = 1 /\ medical_records[1].id = StoredRecord2
        /\ medical_records[1].ai_summary = PyText(TxtRest)
        /\ users["u1"].tokens = 125
        /\ Len(token_transactions) = 3 /\ token_transactions[1].id = StoredRecord1

\* C27: each completed toggle flips is_favorite of its template exactly once
\* (so that two toggles, one after another or interleaved, restore it) and
\* changes no other field and no other template; an unknown id is answered
\* 404 and changes nothing.
C27_ToggleFlipsOnce ==
    [][\A p \in Procs :
          /\ (req[p].pc = "tf_update" /\ StepOf(p)) =>
                /\ req'[p].status = 200
                /\ DOMAIN paperwork_templates' = DOMAIN paperwork_templates
                /\ \A k \in DOMAIN paperwork_templates :
                      IF paperwork_templates[k].id = req[p].target
                      THEN paperwork_templates'[k] =
                               [paperwork_templates[k] EXCEPT !.is_favorite = ~@]
                      ELSE paperwork_templates'[k] = paperwork_templates[k]
          /\ (req[p].pc = "tf_find" /\ StepOf(p)) =>
                /\ paperwork_templates' = paperwork_templates
                /\ req'[p].status = 404 <=>
                      (\A k \in DOMAIN paperwork_templates :
                          paperwork_templates[k].id # req[p].target)]_vars

\* C28: get_health_consultation answers urgency_level 'emergency' whenever the
\* user's message contains an emergency keyword, whatever the LLM returns and
\* also when the LLM call fails.
C28_EmergencyMessageIsEmergency ==
    (/\ ai.fn = "get_health_consultation"
     /\ \E k \in emergency_keywords : Contains(k, LowerStr(ai.message)))
        => DictGet(ai.result, "urgency_level", PyNone) = PyStr("emergency")

\* The LLM answered the emergency detector with a JSON object whose
\* emergency_detected is truthy.
Detected ==
    /\ ~ai.llm.raised
    /\ PyType(JsonLoads(ai.llm.text)) = "dict"
    /\ PyTruthy(DictGet(JsonLoads(ai.llm.text), "emergency_detected", PyNone))

\* C29: analyze_for_emergencies returns the decoded object, unchanged, when
\* the LLM call succeeds with a JSON object whose emergency_detected is
\* truthy; for an LLM error, text that is not JSON, JSON that is not an
\* object, or emergency_detected false or missing it returns None, and it
\* never raises.
C29_EmergencyResultOrNone ==
    ai.fn = "analyze_for_emergencies" =>
        /\ ai.result # AttributeError
        /\ ai.result # JSONDecodeError
        /\ IF Detected THEN ai.result = JsonLoads(ai.llm.text) /\ ai.result # PyNone
           ELSE ai.result = PyNone

\* The detector handing on the LLM's {"emergency_detected": true}.
C29_Witness ==
    /\ ai.fn = "analyze_for_emergencies"
    /\ ai.llm = LlmText(TxtEmergency)
    /\ ai.result = PyDict(<< << "emergency_detected", PyBool(TRUE) >> >>)

====
